---- MODULE Spec2Model ----
(***************************************************************************)
(* Model of src/game.py: the bounded entity (PyGameObjecMotion) with its   *)
(* step-wise moves, jumps, launch and position trail, the closed-form      *)
(* motion equations (PyGame2DMotionEquations), the coordinate flip         *)
(* (PyGameCoordinatesTransform) and the simulation loop (PygameApp.run).   *)
(*                                                                         *)
(* Coordinates are integers.  A call is one action: the whole body of      *)
(* move (pre-check, loop, appends) or jump happens in one step, and the    *)
(* variable last records the call that was just made and how it ended.     *)
(***************************************************************************)
EXTENDS Integers, Sequences, FiniteSets, TLC

VARIABLES coords, trail, width, height, eq, last, query, app

vars == <<coords, trail, width, height, eq, last, query, app>>

----------------------------------------------------------------------------
(* Bounds of the exploration *)

MaxSteps == 3
MaxTrail == 3
SmallArena == 3
MaxT == 2
MaxV == 1
MaxP == 1
MaxA == 1
MaxC == 2
MaxBatch == 2
MaxLoopTrail == 6

(* Program constants *)

WIDTH == 600
HEIGHT == 600
KeyStep == 5
player_radius == 20
KeySteps == 3

Directions == {"up", "down", "left", "right"}
AnyDirection == Directions \cup {"diagonal"}

\* Arguments the calls are tried with: the unit step and the step of the
\* key handlers; impulses of either sign, zero and a large one.
StepSizes == {1, KeyStep}
StepCounts == 0..MaxSteps
Impulses == {0 - 50, 0 - 1, 0, 1, 50}

\* Arenas and the positions an entity is created at: every position of the
\* small arena, and chosen positions of the shipped 600x600 arena.
StartStates ==
    {[w |-> SmallArena, h |-> SmallArena, c |-> <<x, y>>] :
        x \in 0..SmallArena, y \in 0..SmallArena}
    \cup
    {[w |-> WIDTH, h |-> HEIGHT, c |-> p] :
        p \in {<<0, 0>>, <<WIDTH - 1, 0>>, <<10, 2>>, <<10, 10>>}}

----------------------------------------------------------------------------
(* PyGame2DMotionEquations.  The positions carry a factor 0.5, so the      *)
(* position operators return TWICE the value the code returns; velocities  *)
(* are returned as they are.                                               *)

get_x_velocity(e, t) == e.ax * t + e.vx0

get_y_velocity(e, t) == e.ay * t + e.vy0

get_x_position(e, t) ==
    LET ax == get_x_velocity(e, t) * t
    IN  (ax * t * t) + 2 * (e.vx0 * t) + 2 * e.x0

get_y_position(e, t) ==
    (e.ay * t * t) + 2 * (e.vy0 * t) + 2 * e.y0

\* PyGameCoordinatesTransform.transform_coordinates_flip
flip_shifted(coordinates, h) ==
    LET x == coordinates[1]
        y == coordinates[2]
    IN  <<x, y - h>>

transform_coordinates_flip(coordinates, h) ==
    LET x == coordinates[1]
        y == coordinates[2]
    IN  <<x, h - y>>

\* PyGameObjecMotion.get_velocity_module returns math.sqrt(radicand); the
\* model returns the radicand, that is the SQUARE of the speed, and
\* math.sqrt raises ValueError on a negative radicand.
sqrt_of(radicand) ==
    IF radicand < 0 THEN [outcome |-> "ValueError", value |-> 0]
    ELSE [outcome |-> "ok", value |-> radicand]

get_velocity_module(e, t) ==
    IF t <= 0 THEN sqrt_of(e.vx0 * e.vx0 + e.vy0)
    ELSE LET vx == get_x_velocity(e, t)
             vy == get_y_velocity(e, t)
         IN  sqrt_of(vx * vx + vy * vy)

----------------------------------------------------------------------------
(* PyGameObjecMotion: an entity state s is [coords, trail].                *)

_forward_strict(s, h, yi) ==
    LET x == s.coords[1]
        y == s.coords[2]
        c == <<x, IF y - yi < 0 THEN h ELSE y - yi>>
    IN  [coords |-> c, trail |-> Append(s.trail, c)]

_forward(s, h, yi) ==
    LET x == s.coords[1]
        y == s.coords[2]
        c == <<x, IF y - yi <= 0 THEN h ELSE y - yi>>
    IN  [coords |-> c, trail |-> Append(s.trail, c)]

_backwards_noappend(s, h, yi) ==
    LET x == s.coords[1]
        y == s.coords[2]
        c == <<x, IF y + yi >= h THEN 0 ELSE y + yi>>
    IN  [coords |-> c, trail |-> s.trail]

_backwards(s, h, yi) ==
    LET x == s.coords[1]
        y == s.coords[2]
        c == <<x, IF y + yi >= h THEN 0 ELSE y + yi>>
    IN  [coords |-> c, trail |-> Append(s.trail, c)]

_left_unit(s, w, xi) ==
    LET x == s.coords[1]
        y == s.coords[2]
        c == <<IF x - xi <= 0 THEN w ELSE x - 1, y>>
    IN  [coords |-> c, trail |-> Append(s.trail, c)]

_left(s, w, xi) ==
    LET x == s.coords[1]
        y == s.coords[2]
        c == <<IF x - xi <= 0 THEN w ELSE x - xi, y>>
    IN  [coords |-> c, trail |-> Append(s.trail, c)]

_right_stale(s, w, xi) ==
    LET x == s.coords[1]
        y == s.coords[2]
        c == <<IF x + xi >= w THEN 0 ELSE x + xi, y>>
    IN  [coords |-> c, trail |-> Append(s.trail, s.coords)]

_right_nowrap(s, w, xi) ==
    LET x == s.coords[1]
        y == s.coords[2]
        c == <<x + xi, y>>
    IN  [coords |-> c, trail |-> Append(s.trail, c)]

_right(s, w, xi) ==
    LET x == s.coords[1]
        y == s.coords[2]
        c == <<IF x + xi >= w THEN 0 ELSE x + xi, y>>
    IN  [coords |-> c, trail |-> Append(s.trail, c)]

check_ignores_up(s, screen_width, screen_height, xi, yi, direction) ==
    LET x == s.coords[1]
        y == s.coords[2]
    IN  IF direction = "right" /\ x + xi >= screen_width THEN FALSE
        ELSE IF direction = "left" /\ x - xi <= 0 THEN FALSE
        ELSE IF direction = "down" /\ y + yi >= screen_height THEN FALSE
        ELSE TRUE

check_crossing_only(s, screen_width, screen_height, xi, yi, direction) ==
    LET x == s.coords[1]
        y == s.coords[2]
    IN  IF direction = "right" /\ x + xi > screen_width THEN FALSE
        ELSE IF direction = "left" /\ x - xi < 0 THEN FALSE
        ELSE IF direction = "up" /\ y - yi < 0 THEN FALSE
        ELSE IF direction = "down" /\ y + yi > screen_height THEN FALSE
        ELSE TRUE

_check_screen_collition(s, screen_width, screen_height, xi, yi, direction) ==
    LET x == s.coords[1]
        y == s.coords[2]
    IN  IF direction = "right" /\ x + xi >= screen_width THEN FALSE
        ELSE IF direction = "left" /\ x - xi <= 0 THEN FALSE
        ELSE IF direction = "up" /\ y - yi <= 0 THEN FALSE
        ELSE IF direction = "down" /\ y + yi >= screen_height THEN FALSE
        ELSE TRUE

\* The for loop of move: n iterations remain.  An unknown direction raises
\* in the first iteration that runs; with no iteration nothing is raised.
RECURSIVE move_loop(_, _, _, _, _, _, _)
move_loop(s, direction, h, w, yi, xi, n) ==
    IF n = 0 THEN [coords |-> s.coords, trail |-> s.trail, outcome |-> "ok"]
    ELSE IF direction = "up"
        THEN move_loop(_forward(s, h, yi), direction, h, w, yi, xi, n - 1)
    ELSE IF direction = "down"
        THEN move_loop(_backwards(s, h, yi), direction, h, w, yi, xi, n - 1)
    ELSE IF direction = "left"
        THEN move_loop(_left(s, w, xi), direction, h, w, yi, xi, n - 1)
    ELSE IF direction = "right"
        THEN move_loop(_right(s, w, xi), direction, h, w, yi, xi, n - 1)
    ELSE [coords |-> s.coords, trail |-> s.trail, outcome |-> "ValueError"]

move(s, direction, h, w, yi, xi, steps) ==
    IF ~ _check_screen_collition(s, w, h, xi, yi, direction)
    THEN [coords |-> s.coords, trail |-> s.trail, outcome |-> "veto"]
    ELSE move_loop(s, direction, h, w, yi, xi, steps)

jump_lenient(s, yi, direction) ==
    IF direction = "up"
    THEN LET r == _forward(s, yi, 1)
         IN  [coords |-> r.coords, trail |-> r.trail, outcome |-> "ok"]
    ELSE IF direction = "down" /\ yi <= 0
    THEN LET r == _backwards(s, yi, 1)
         IN  [coords |-> r.coords, trail |-> r.trail, outcome |-> "ok"]
    ELSE [coords |-> s.coords, trail |-> s.trail, outcome |-> "ValueError"]

\* jump passes its impulse as the FIRST positional argument of _forward and
\* _backwards, which is h; the step size keeps its default of 1.
jump(s, yi, direction) ==
    IF direction = "up" /\ yi >= 0
    THEN LET r == _forward(s, yi, 1)
         IN  [coords |-> r.coords, trail |-> r.trail, outcome |-> "ok"]
    ELSE IF direction = "down" /\ yi <= 0
    THEN LET r == _backwards(s, yi, 1)
         IN  [coords |-> r.coords, trail |-> r.trail, outcome |-> "ok"]
    ELSE [coords |-> s.coords, trail |-> s.trail, outcome |-> "ValueError"]

\* launch(t) with t in milliseconds: the position the equations give at
\* t / 1000 becomes the position; the trail is not touched.  The times
\* tried are whole seconds and the initial conditions of Init make both
\* doubled positions even, so the halving is exact.
launch(s, e, t) ==
    LET x == get_x_position(e, t \div 1000) \div 2
        y == get_y_position(e, t \div 1000) \div 2
    IN  [coords |-> <<x, y>>, trail |-> s.trail]

----------------------------------------------------------------------------
(* State machine *)

NoCall ==
    [op |-> "none", dir |-> "none", size |-> 0, steps |-> 0,
     outcome |-> "none", prev |-> <<0, 0>>]

\* A query records the function called, its argument, whether it returned
\* ("ok") or raised, and the value returned.
NoQuery == [fn |-> "none", t |-> 0, outcome |-> "none", value |-> 0]

\* The application state while no simulation loop is running.
NoApp == [pc |-> "none"]

Self == [coords |-> coords, trail |-> trail]

\* PyGameObjecMotion.__init__: the coordinates, an empty position list and
\* the equations' initial conditions (the values of the docstring example).
Init ==
    /\ \E st \in StartStates :
          /\ width = st.w
          /\ height = st.h
          /\ coords = st.c
          /\ eq = [x0 |-> st.c[1], y0 |-> st.c[2], vx0 |-> 4, vy0 |-> 5,
                   ay |-> 10, ax |-> 0]
    /\ trail = <<>>
    /\ last = NoCall
    /\ query = NoQuery
    /\ app = NoApp

\* The arguments of a move of stepSize, as PygameApp.run passes them: the
\* vertical moves give yi and leave xi at its default 1, the horizontal
\* moves give xi and pass yi = 0.
yi_of(direction, stepSize) ==
    IF direction \in {"left", "right"} THEN 0 ELSE stepSize

xi_of(direction, stepSize) ==
    IF direction \in {"left", "right"} THEN stepSize ELSE 1

\* player.move(direction, height, width, yi, xi, steps).  A session is
\* explored until its trail holds MaxTrail entries.
MoveCall ==
    \E direction \in AnyDirection, stepSize \in StepSizes,
       steps \in StepCounts :
        /\ Len(trail) < MaxTrail
        /\ Len(trail) + steps <= MaxTrail
        /\ LET yi == yi_of(direction, stepSize)
               xi == xi_of(direction, stepSize)
               r == move(Self, direction, height, width, yi, xi, steps)
           IN  /\ coords' = r.coords
               /\ trail' = r.trail
               /\ last' = [op |-> "move", dir |-> direction,
                           size |-> stepSize, steps |-> steps,
                           outcome |-> r.outcome, prev |-> coords]
        /\ UNCHANGED <<width, height, eq, query, app>>

\* player.jump(yi, direction)
JumpCall ==
    \E direction \in {"up", "down", "diagonal"}, yi \in Impulses :
        /\ Len(trail) < MaxTrail
        /\ LET r == jump(Self, yi, direction)
           IN  /\ coords' = r.coords
               /\ trail' = r.trail
               /\ last' = [op |-> "jump", dir |-> direction, size |-> yi,
                           steps |-> 1, outcome |-> r.outcome,
                           prev |-> coords]
        /\ UNCHANGED <<width, height, eq, query, app>>

Next == MoveCall \/ JumpCall

Spec == Init /\ [][Next]_vars

\* player.launch(t)
LaunchTimes == {0, 1000}

LaunchCall ==
    \E t \in LaunchTimes :
        /\ Len(trail) < MaxTrail
        /\ LET r == launch(Self, eq, t)
           IN  /\ coords' = r.coords
               /\ trail' = r.trail
               /\ last' = [op |-> "launch", dir |-> "none", size |-> t,
                           steps |-> 0, outcome |-> "ok", prev |-> coords]
        /\ UNCHANGED <<width, height, eq, query, app>>

\* Sessions in which launch is called as well, for an entity created at
\* (1, 1) in the small arena.
InitLaunch ==
    /\ Init
    /\ width = SmallArena
    /\ coords = <<1, 1>>

NextLaunch == MoveCall \/ JumpCall \/ LaunchCall

SpecLaunch == InitLaunch /\ [][NextLaunch]_vars

\* Sessions in which the entity is driven by move calls only.
NextMove == MoveCall

SpecMove == Init /\ [][NextMove]_vars

----------------------------------------------------------------------------
(* The motion equations on their own: PyGame2DMotionEquations built from   *)
(* bounded integer initial conditions and queried at bounded times.  None  *)
(* of the four getters looks at the sign of t or raises.                   *)

InitMotion ==
    /\ eq \in [x0 : 0..MaxP, y0 : 0..MaxP,
               vx0 : (0 - MaxV)..MaxV, vy0 : (0 - MaxV)..MaxV,
               ay : (0 - MaxA)..MaxA, ax : (0 - MaxA)..MaxA]
    /\ coords = <<eq.x0, eq.y0>>
    /\ width = WIDTH
    /\ height = HEIGHT
    /\ trail = <<>>
    /\ last = NoCall
    /\ query = NoQuery
    /\ app = NoApp

Times == (0 - MaxT)..MaxT

GetXPosition ==
    \E t \in Times :
        /\ query' = [fn |-> "get_x_position", t |-> t, outcome |-> "ok",
                     value |-> get_x_position(eq, t)]
        /\ UNCHANGED <<coords, trail, width, height, eq, last, app>>

GetYPosition ==
    \E t \in Times :
        /\ query' = [fn |-> "get_y_position", t |-> t, outcome |-> "ok",
                     value |-> get_y_position(eq, t)]
        /\ UNCHANGED <<coords, trail, width, height, eq, last, app>>

GetXVelocity ==
    \E t \in Times :
        /\ query' = [fn |-> "get_x_velocity", t |-> t, outcome |-> "ok",
                     value |-> get_x_velocity(eq, t)]
        /\ UNCHANGED <<coords, trail, width, height, eq, last, app>>

GetYVelocity ==
    \E t \in Times :
        /\ query' = [fn |-> "get_y_velocity", t |-> t, outcome |-> "ok",
                     value |-> get_y_velocity(eq, t)]
        /\ UNCHANGED <<coords, trail, width, height, eq, last, app>>

NextMotion == GetXPosition \/ GetYPosition \/ GetXVelocity \/ GetYVelocity

SpecMotion == InitMotion /\ [][NextMotion]_vars

\* player.get_velocity_module(t)
GetVelocityModule ==
    \E t \in Times :
        /\ LET r == get_velocity_module(eq, t)
           IN  query' = [fn |-> "get_velocity_module", t |-> t,
                         outcome |-> r.outcome, value |-> r.value]
        /\ UNCHANGED <<coords, trail, width, height, eq, last, app>>

NextSpeed == GetVelocityModule

SpecSpeed == InitMotion /\ [][NextSpeed]_vars

----------------------------------------------------------------------------
(* The coordinate flip on its own, applied to bounded positions and        *)
(* heights, and as draw applies it to the entity's position.               *)

FlipCoords == (0 - MaxC)..MaxC
FlipHeights == (0..MaxC) \cup {HEIGHT}

\* transform_coordinates_flip(p, h), and the flip of its result again.
FlipCall ==
    \E x \in FlipCoords, y \in FlipCoords, h \in FlipHeights :
        /\ LET p == <<x, y>>
               f == transform_coordinates_flip(p, h)
           IN  query' = [fn |-> "transform_coordinates_flip", t |-> 0,
                         outcome |-> "ok", arg |-> p, h |-> h, value |-> f,
                         again |-> transform_coordinates_flip(f, h)]
        /\ UNCHANGED <<coords, trail, width, height, eq, last, app>>

\* PyGameObject.draw: the position flipped with the fixed height 600.
DrawCall ==
    /\ LET f == transform_coordinates_flip(coords, HEIGHT)
       IN  query' = [fn |-> "draw", t |-> 0, outcome |-> "ok",
                     arg |-> coords, h |-> HEIGHT, value |-> f,
                     again |-> transform_coordinates_flip(f, HEIGHT)]
    /\ UNCHANGED <<coords, trail, width, height, eq, last, app>>

NextFlip == FlipCall \/ DrawCall

SpecFlip == Init /\ [][NextFlip]_vars

----------------------------------------------------------------------------
(* PygameApp.run: the simulation loop.  A frame polls a batch of events,   *)
(* handles them one by one, draws, and then the while test either starts   *)
(* the next frame or leaves the loop, after which the trail is logged.     *)
(* The cursor position, the tracking line and the texts are only drawn     *)
(* and are not part of the state.                                          *)
(*                                                                         *)
(* app.pc is the place in run: "poll" (the while test passed, the events   *)
(* are about to be polled), "events" (inside the for loop, idx events of   *)
(* the batch handled so far), "log" (the loop was left), "done" (after     *)
(* player.log).  app.file holds the lines this run appended to             *)
(* position.csv.  quit_polled, handled and flushes are history: whether a  *)
(* polled batch held a QUIT event, how many handlers ran in this frame,    *)
(* how many times log was called.                                          *)

ArrowKeys == {"K_UP", "K_DOWN", "K_LEFT", "K_RIGHT"}

Events ==
    {"QUIT", "MOUSEMOTION", "MOUSEBUTTONDOWN", "K_SPACE", "K_t"}
    \cup ArrowKeys

DirectionOf(ev) ==
    IF ev = "K_UP" THEN "up"
    ELSE IF ev = "K_DOWN" THEN "down"
    ELSE IF ev = "K_LEFT" THEN "left"
    ELSE "right"

Batches == UNION {[1..n -> Events] : n \in 0..MaxBatch}

RECURSIVE ArrowCount(_)
ArrowCount(batch) ==
    IF batch = <<>> THEN 0
    ELSE (IF Head(batch) \in ArrowKeys THEN 1 ELSE 0) + ArrowCount(Tail(batch))

\* PyGameFileLogger.log: one line per value, str(value) without its
\* parentheses, in the order of the list.
line_of(data_value) ==
    ToString(data_value[1]) \o ", " \o ToString(data_value[2])

log_skips_first(data) ==
    [i \in 1..(Len(data) - 1) |-> line_of(data[i + 1])]

log(data) == [i \in 1..Len(data) |-> line_of(data[i])]

\* The for loop over the polled events: after an event, QUIT included, the
\* loop goes on with the next one.
break_on_quit(ev, idx, n) == IF ev = "QUIT" THEN n ELSE idx + 1

next_event(ev, idx, n) == idx + 1

\* The branch "if launch_projectile:" of a frame: its body is pass.
launch_branch_wired(s, e, launch_projectile) ==
    IF launch_projectile THEN launch(s, e, 1000) ELSE s

launch_branch(s, e, launch_projectile) == s

\* The state on entry to the while loop.
InitLoop ==
    /\ width = WIDTH
    /\ height = HEIGHT
    /\ coords = <<player_radius, player_radius>>
    /\ eq = [x0 |-> player_radius, y0 |-> player_radius, vx0 |-> 4,
             vy0 |-> 5, ay |-> 10, ax |-> 0]
    /\ trail = <<>>
    /\ last = NoCall
    /\ query = NoQuery
    /\ app = [pc |-> "poll", batch |-> <<>>, idx |-> 0, handled |-> 0,
              running |-> TRUE, launch_projectile |-> FALSE,
              track_projectile |-> FALSE, file |-> <<>>, flushes |-> 0,
              quit_polled |-> FALSE]

\* pygame.event.get(): any batch of events, possibly empty.  A session is
\* explored while its trail stays within MaxLoopTrail entries.
PollEvents ==
    /\ app.pc = "poll"
    /\ \E batch \in Batches :
          /\ Len(trail) + KeySteps * ArrowCount(batch) <= MaxLoopTrail
          /\ app' = [app EXCEPT
                        !.pc = "events", !.batch = batch, !.idx = 0,
                        !.handled = 0,
                        !.quit_polled =
                            @ \/ \E i \in 1..Len(batch) : batch[i] = "QUIT"]
    /\ UNCHANGED <<coords, trail, width, height, eq, last, query>>

\* The move an arrow key issues.
key_move_short(s, ev, h, w) ==
    LET direction == DirectionOf(ev)
    IN  move(s, direction, h, w, yi_of(direction, KeyStep),
             xi_of(direction, KeyStep), KeySteps - 1)

key_move(s, ev, h, w) ==
    LET direction == DirectionOf(ev)
    IN  move(s, direction, h, w, yi_of(direction, KeyStep),
             xi_of(direction, KeyStep), KeySteps)

\* One iteration of "for event in pygame.event.get()".
HandleEvent ==
    /\ app.pc = "events"
    /\ app.idx < Len(app.batch)
    /\ LET ev == app.batch[app.idx + 1]
           r == key_move(Self, ev, height, width)
           nxt == [app EXCEPT
                      !.idx = next_event(ev, app.idx, Len(app.batch)),
                      !.handled = @ + 1]
       IN  IF ev \in ArrowKeys
           THEN /\ coords' = r.coords
                /\ trail' = r.trail
                /\ last' = [op |-> "move", dir |-> DirectionOf(ev),
                            size |-> KeyStep, steps |-> KeySteps,
                            outcome |-> r.outcome, prev |-> coords]
                /\ app' = nxt
           ELSE /\ UNCHANGED <<coords, trail, last>>
                /\ app' =
                     IF ev = "QUIT"
                     THEN [nxt EXCEPT !.running = FALSE]
                     ELSE IF ev = "K_SPACE"
                     THEN [nxt EXCEPT !.launch_projectile = ~ @]
                     ELSE IF ev = "K_t"
                     THEN [nxt EXCEPT !.track_projectile = ~ @]
                     ELSE nxt
    /\ UNCHANGED <<width, height, eq, query>>

\* The rest of the frame once the batch is exhausted: the launch branch,
\* the drawing and the clock, and then the while test.
DrawFrame ==
    /\ app.pc = "events"
    /\ app.idx >= Len(app.batch)
    /\ LET r == launch_branch(Self, eq, app.launch_projectile)
       IN  /\ coords' = r.coords
           /\ trail' = r.trail
    /\ app' = [app EXCEPT !.pc = IF app.running THEN "poll" ELSE "log"]
    /\ UNCHANGED <<width, height, eq, last, query>>

\* player.log(player.metrics["position"], "position.csv")
LogTrail ==
    /\ app.pc = "log"
    /\ app' = [app EXCEPT !.pc = "done", !.file = @ \o log(trail),
                          !.flushes = @ + 1]
    /\ UNCHANGED <<coords, trail, width, height, eq, last, query>>

NextLoop == PollEvents \/ HandleEvent \/ DrawFrame \/ LogTrail

SpecLoop == InitLoop /\ [][NextLoop]_vars

----------------------------------------------------------------------------
(* Unbounded sequences of key events.  The moves never read the trail, so  *)
(* to follow the position through any number of keys this specification    *)
(* keeps only the entries of the latest move in trail (the older entries   *)
(* are dropped) and runs a whole frame, polled with a single key-down      *)
(* event, as one step.                                                     *)

Recent(t) ==
    IF Len(t) <= KeySteps THEN t
    ELSE SubSeq(t, Len(t) - KeySteps + 1, Len(t))

KeyFrame ==
    /\ app.pc = "poll"
    /\ \E ev \in ArrowKeys \cup {"K_SPACE"} :
          LET r == key_move(Self, ev, height, width)
              nxt == [app EXCEPT !.batch = <<ev>>, !.idx = 1, !.handled = 1]
          IN  IF ev \in ArrowKeys
              THEN /\ coords' = r.coords
                   /\ trail' = Recent(r.trail)
                   /\ last' = [op |-> "move", dir |-> DirectionOf(ev),
                               size |-> KeyStep, steps |-> KeySteps,
                               outcome |-> r.outcome, prev |-> coords]
                   /\ app' = nxt
              ELSE /\ UNCHANGED <<coords, trail, last>>
                   /\ app' = [nxt EXCEPT !.launch_projectile = ~ @]
    /\ UNCHANGED <<width, height, eq, query>>

NextKeys == KeyFrame

SpecKeys == InitLoop /\ [][NextKeys]_vars

----------------------------------------------------------------------------
(* Vocabulary of the properties *)

IsPrefix(a, b) ==
    /\ Len(a) <= Len(b)
    /\ \A i \in 1..Len(a) : a[i] = b[i]

Abs(n) == IF n < 0 THEN 0 - n ELSE n

\* The point n units from c in a direction; up decreases y.
Displaced(c, direction, n) ==
    IF direction = "up" THEN <<c[1], c[2] - n>>
    ELSE IF direction = "down" THEN <<c[1], c[2] + n>>
    ELSE IF direction = "left" THEN <<c[1] - n, c[2]>>
    ELSE <<c[1] + n, c[2]>>

\* The coordinate of c on the axis of a direction, and that axis's bound.
AxisValue(c, direction) ==
    IF direction \in {"up", "down"} THEN c[2] ELSE c[1]

AxisBound(direction) ==
    IF direction \in {"up", "down"} THEN height ELSE width

\* The opposite edge a step in a direction wraps to.
Wrapped(c, direction) ==
    IF direction = "up" THEN <<c[1], height>>
    ELSE IF direction = "down" THEN <<c[1], 0>>
    ELSE IF direction = "left" THEN <<width, c[2]>>
    ELSE <<0, c[2]>>

\* One step of size n from c would go beyond the edge it heads to, out of
\* the closed arena range.
Crosses(c, direction, n) ==
    LET v == AxisValue(Displaced(c, direction, n), direction)
    IN  IF direction \in {"up", "left"} THEN v < 0
        ELSE v > AxisBound(direction)

\* One step of size n from c would reach or pass the edge it heads to.
ReachesEdge(c, direction, n) ==
    LET v == AxisValue(Displaced(c, direction, n), direction)
    IN  IF direction \in {"up", "left"} THEN v <= 0
        ELSE v >= AxisBound(direction)

\* None of k steps of size n from c comes to a boundary.
NoStepReaches(c, direction, n, k) ==
    \A i \in 1..k :
        LET v == AxisValue(Displaced(c, direction, i * n), direction)
        IN  0 < v /\ v < AxisBound(direction)

\* The position before and after the i-th step of the last call, read from
\* the trail: the call appended its last.steps entries at the end.
StepBefore(i) ==
    IF i = 1 THEN last.prev ELSE trail[Len(trail) - last.steps + i - 1]

StepAfter(i) == trail[Len(trail) - last.steps + i]

LastMoveRan == last.op = "move" /\ last.outcome = "ok" /\ last.dir \in Directions

----------------------------------------------------------------------------
(* C1: an entity created inside the arena stays inside the closed arena    *)
(* 0 <= x <= width, 0 <= y <= height after every move call.               *)
C1_InArena ==
    /\ 0 <= coords[1] /\ coords[1] <= width
    /\ 0 <= coords[2] /\ coords[2] <= height

\* A multi-step move to the right whose later step wrapped to x = 0.
C1_Witness ==
    /\ last.op = "move" /\ last.outcome = "ok" /\ last.dir = "right"
    /\ last.steps >= 2 /\ last.prev[1] > 0 /\ coords[1] = 0

(* C2: a move whose first step would cross the arena boundary is a         *)
(* complete no-op for every steps value: position and trail unchanged,     *)
(* nothing raised.                                                         *)
C2_BoundaryVeto ==
    [][(/\ last'.op = "move" /\ last'.dir \in Directions
        /\ Crosses(coords, last'.dir, last'.size))
       => (/\ last'.outcome = "veto"
           /\ coords' = coords
           /\ trail' = trail)]_vars

\* move("up", stepSize = 5, steps = 3) from y = 2 on the 600-tall arena.
C2_Witness ==
    /\ height = HEIGHT /\ last.op = "move" /\ last.dir = "up"
    /\ last.size = KeyStep /\ last.steps = 3 /\ last.prev = <<10, 2>>
    /\ last.outcome = "veto" /\ coords = <<10, 2>>

(* C3: an admitted move of k steps none of which comes to a boundary       *)
(* displaces the position by exactly k*stepSize on the direction's axis    *)
(* and appends the k successive intermediate positions, in order.          *)
C3_ExactDisplacement ==
    [][(/\ last'.op = "move" /\ last'.outcome = "ok"
        /\ last'.dir \in Directions
        /\ NoStepReaches(coords, last'.dir, last'.size, last'.steps))
       => (/\ coords' = Displaced(coords, last'.dir,
                                  last'.steps * last'.size)
           /\ trail' = trail \o
                 [i \in 1..last'.steps |->
                     Displaced(coords, last'.dir, i * last'.size)])]_vars

\* move("right", stepSize = 1, steps = 3) from (0,0) on the 600x600 arena.
C3_Witness ==
    /\ width = WIDTH /\ height = HEIGHT
    /\ last.op = "move" /\ last.outcome = "ok" /\ last.dir = "right"
    /\ last.size = 1 /\ last.steps = 3 /\ last.prev = <<0, 0>>
    /\ coords = <<3, 0>>
    /\ trail = << <<1, 0>>, <<2, 0>>, <<3, 0>> >>

(* C4 as stated: each step of an admitted move is a plain displacement     *)
(* when the resulting coordinate stays inside the closed range [0, bound]  *)
(* and wraps to the opposite edge exactly when the step would exit it.     *)
C4_WrapOnlyOnExit ==
    LastMoveRan =>
        \A i \in 1..last.steps :
            StepAfter(i) =
                IF Crosses(StepBefore(i), last.dir, last.size)
                THEN Wrapped(StepBefore(i), last.dir)
                ELSE Displaced(StepBefore(i), last.dir, last.size)

(* C4 amended: each step of an admitted move is a plain displacement when  *)
(* the resulting coordinate stays strictly inside (0, bound), and wraps    *)
(* to the opposite edge exactly when the step would reach or pass the      *)
(* edge it heads to; later steps continue from the wrapped position.       *)
C4_WrapOnReach ==
    LastMoveRan =>
        \A i \in 1..last.steps :
            StepAfter(i) =
                IF ReachesEdge(StepBefore(i), last.dir, last.size)
                THEN Wrapped(StepBefore(i), last.dir)
                ELSE Displaced(StepBefore(i), last.dir, last.size)

\* A step that landed exactly on the edge wrapped, and the next step of the
\* same call went on from the wrapped position.
C4_Witness ==
    /\ LastMoveRan /\ last.dir = "down" /\ last.steps = 3
    /\ \E i \in 1..2 :
          /\ StepBefore(i)[2] + last.size = height
          /\ StepAfter(i)[2] = 0
          /\ StepAfter(i + 1)[2] = last.size

(* C5 as stated: from x = 599 on width 600, move("right", stepSize = 1,    *)
(* steps = 1) is admitted by the pre-check and yields x = 0.               *)
C5_AdmittedAndWraps ==
    (/\ width = WIDTH /\ last.op = "move" /\ last.dir = "right"
     /\ last.size = 1 /\ last.steps = 1 /\ last.prev[1] = WIDTH - 1)
    => (last.outcome = "ok" /\ coords[1] = 0)

(* C5 amended: from x = 599 on width 600, move("right", stepSize = 1,      *)
(* steps = 1) is vetoed by the pre-check: x stays 599 (neither 0 nor 600)  *)
(* and the trail is unchanged.                                             *)
C5_Vetoed ==
    [][(/\ width = WIDTH /\ coords[1] = WIDTH - 1
        /\ last'.op = "move" /\ last'.dir = "right"
        /\ last'.size = 1 /\ last'.steps = 1)
       => (/\ last'.outcome = "veto"
           /\ coords' = coords
           /\ trail' = trail)]_vars

C5_Witness ==
    /\ width = WIDTH /\ last.op = "move" /\ last.dir = "right"
    /\ last.size = 1 /\ last.steps = 1 /\ last.prev[1] = WIDTH - 1
    /\ last.outcome = "veto" /\ coords[1] = WIDTH - 1

(* C6: every legal jump (up with impulse >= 0, down with impulse <= 0)     *)
(* applies one vertical displacement of magnitude |impulse|, leaves x      *)
(* unchanged and does not veto, clamp or wrap; for up the new position is  *)
(* (x, y - impulse).                                                       *)
C6_JumpDisplacesByImpulse ==
    (/\ last.op = "jump"
     /\ \/ last.dir = "up" /\ last.size >= 0
        \/ last.dir = "down" /\ last.size <= 0)
    => (/\ last.outcome = "ok"
        /\ coords[1] = last.prev[1]
        /\ Abs(coords[2] - last.prev[2]) = Abs(last.size)
        /\ last.dir = "up" => coords[2] = last.prev[2] - last.size)

(* C7: the trail is append-only across move and jump calls, and grows by   *)
(* exactly one entry per applied step: k for a move that runs k steps, one *)
(* for a jump, none for a vetoed or failed call.                           *)
C7_TrailAppendOnly ==
    [][/\ IsPrefix(trail, trail')
       /\ Len(trail') = Len(trail) +
              (IF last'.outcome = "ok" THEN last'.steps ELSE 0)]_vars

\* A second call extended a trail that an earlier call had started.
C7_Witness ==
    /\ last.op = "move" /\ last.outcome = "ok" /\ last.dir = "down"
    /\ last.steps = 2 /\ Len(trail) = 3

(* C8: a move whose direction is not up, down, left or right fails with    *)
(* ValueError for every position, stepSize and step count, steps = 0       *)
(* included; it is never a silent no-op.                                   *)
C8_UnknownDirectionRaises ==
    (last.op = "move" /\ last.dir \notin Directions)
    => (last.outcome = "ValueError" /\ coords = last.prev)

(* C9: jump raises ValueError for up with impulse < 0, down with           *)
(* impulse > 0 and any direction outside {up, down}; the failed call       *)
(* leaves position and trail unchanged.                                    *)
C9_JumpRejects ==
    [][(/\ last'.op = "jump"
        /\ \/ last'.dir = "up" /\ last'.size < 0
           \/ last'.dir = "down" /\ last'.size > 0
           \/ last'.dir \notin {"up", "down"})
       => (/\ last'.outcome = "ValueError"
           /\ coords' = coords
           /\ trail' = trail)]_vars

\* A sign-inconsistent jump up was rejected after the trail had entries.
C9_Witness ==
    /\ last.op = "jump" /\ last.dir = "up" /\ last.size < 0
    /\ last.outcome = "ValueError" /\ Len(trail) > 0

(* C10: for t >= 0 the position on each axis is 0.5*a*t^2 + v0*t + x0      *)
(* with that axis's own acceleration, initial velocity and initial         *)
(* position (both sides doubled here to stay in the integers).             *)
C10_PositionFormula ==
    /\ (query.fn = "get_x_position" /\ query.t >= 0)
       => query.value =
            eq.ax * query.t * query.t + 2 * eq.vx0 * query.t + 2 * eq.x0
    /\ (query.fn = "get_y_position" /\ query.t >= 0)
       => query.value =
            eq.ay * query.t * query.t + 2 * eq.vy0 * query.t + 2 * eq.y0

(* C11: the vertical flip is an involution: flipping (x, y) with height h  *)
(* gives (x, h - y), never changes x, and flipping the result with the     *)
(* same h gives (x, y) back.                                               *)
C11_FlipInvolution ==
    (query.fn \in {"transform_coordinates_flip", "draw"})
    => (/\ query.value = <<query.arg[1], query.h - query.arg[2]>>
        /\ query.again = query.arg)

\* A flip with a non-zero height that moved the point, flipped back.
C11_Witness ==
    /\ query.fn = "transform_coordinates_flip" /\ query.h = HEIGHT
    /\ query.arg = <<1, 2>> /\ query.value = <<1, HEIGHT - 2>>
    /\ query.again = <<1, 2>>

(* C12: for t <= 0 the speed is the Euclidean norm of the initial          *)
(* velocity: its square is vx0^2 + vy0^2, both components squared.         *)
C12_InitialSpeedIsNorm ==
    (query.fn = "get_velocity_module" /\ query.t <= 0)
    => (/\ query.outcome = "ok"
        /\ query.value = eq.vx0 * eq.vx0 + eq.vy0 * eq.vy0)

(* C13: a position or velocity query with a negative elapsed time is       *)
(* reported as an invalid-argument error and never returns a value.        *)
C13_NegativeTimeRaises ==
    (/\ query.fn \in {"get_x_position", "get_y_position",
                      "get_x_velocity", "get_y_velocity"}
     /\ query.t < 0)
    => query.outcome = "ValueError"

\* The trail is empty or its last entry is the current position.
TrailAgrees == trail = <<>> \/ trail[Len(trail)] = coords

(* C16: move and jump calls, whether they succeed, are vetoed or fail,     *)
(* keep the last trail entry equal to the current position; only a launch  *)
(* call changes the position without appending and can break the          *)
(* equality.                                                               *)
C16_TrailEndsAtPosition ==
    [][(TrailAgrees /\ last'.op # "launch") => TrailAgrees']_vars

\* A launch moved the entity away from the last recorded position.
C16_Witness ==
    /\ last.op = "launch" /\ trail # <<>>
    /\ trail[Len(trail)] = last.prev /\ trail[Len(trail)] # coords

\* The event the for loop of the current frame handles next, if any.
InForLoop == app.pc = "events" /\ app.idx < Len(app.batch)

CurrentEvent == app.batch[app.idx + 1]

(* C14: the trail is flushed to the log exactly once per run, only after   *)
(* the loop has stopped on a quit event and never during the loop; the     *)
(* flush writes one line per trail entry, in trail order, for every entry  *)
(* appended during the session.                                            *)
C14_FlushedOnceAtShutdown ==
    /\ app.pc \in {"poll", "events", "log"}
       => (app.flushes = 0 /\ app.file = <<>>)
    /\ app.pc = "done"
       => (/\ app.flushes = 1
           /\ app.quit_polled /\ ~ app.running
           /\ Len(app.file) = Len(trail)
           /\ \A i \in 1..Len(trail) :
                 app.file[i] =
                     ToString(trail[i][1]) \o ", " \o ToString(trail[i][2]))

\* A run that ended after two arrow keys had been handled.
C14_Witness ==
    /\ app.pc = "done" /\ Len(trail) = 2 * KeySteps
    /\ app.file[1] = "20, 15" /\ Len(app.file) = 2 * KeySteps

(* C15: in the loop the position and the trail change only while an arrow  *)
(* key-down event is handled, by the move in its direction; quit, mouse    *)
(* and other key events leave them unchanged; the spacebar only toggles    *)
(* the launch flag, and no frame commits a projected position whatever     *)
(* the flag is.                                                            *)
C15_OnlyArrowsMove ==
    [][/\ (coords' # coords \/ trail' # trail)
          => (/\ InForLoop /\ CurrentEvent \in ArrowKeys
              /\ last'.op = "move"
              /\ last'.dir = DirectionOf(CurrentEvent)
              /\ last'.size = KeyStep /\ last'.steps = KeySteps)
       /\ (InForLoop /\ CurrentEvent = "K_SPACE")
          => app' = [app EXCEPT !.launch_projectile = ~ @,
                                !.idx = @ + 1, !.handled = @ + 1]]_vars

\* A frame was drawn with the launch flag set, after the player had moved:
\* the position is still the one the move left.
C15_Witness ==
    /\ app.pc = "poll" /\ app.launch_projectile
    /\ trail # <<>> /\ coords = trail[Len(trail)]
    /\ app.batch # <<>> /\ app.batch[Len(app.batch)] = "K_SPACE"

(* C18: the loop stops if and only if a quit event has been polled, and    *)
(* it stops at the end of the frame in which the quit was polled: every    *)
(* event of the batch, those after the quit included, is handled first,    *)
(* and the steps of an arrow key after the quit are in the flushed trail.  *)
C18_StopsAtFrameEnd ==
    [][/\ (app.pc = "events" /\ app'.pc \in {"poll", "log"})
          => (/\ app.handled = Len(app.batch)
              /\ app'.pc = "log" <=> app.quit_polled)
       /\ app'.pc = "log" => app.pc = "events"
       /\ (InForLoop /\ CurrentEvent \in ArrowKeys /\ ~ app.running)
          => (/\ last'.op = "move"
              /\ last'.outcome = "ok" => Len(trail') = Len(trail) + KeySteps)
       /\ app'.pc = "done" => Len(app'.file) = Len(trail)]_vars

\* A quit followed by an arrow key in the same batch: the key moved the
\* player, and its steps are in the file.
C18_Witness ==
    /\ app.pc = "done" /\ app.batch = <<"QUIT", "K_RIGHT">>
    /\ trail = << <<25, 20>>, <<30, 20>>, <<35, 20>> >>
    /\ coords = <<35, 20>>
    /\ app.file = <<"25, 20", "30, 20", "35, 20">>

(* C17: in the shipped loop (600x600 arena, player created at (20,20),     *)
(* arrow keys moving 3 steps of 5) the position after every handled key    *)
(* event is strictly inside the arena, 0 < x < 600 and 0 < y < 600; the    *)
(* edge values occur only as intermediate steps of one move.               *)
C17_StrictlyInside ==
    /\ 0 < coords[1] /\ coords[1] < WIDTH
    /\ 0 < coords[2] /\ coords[2] < HEIGHT

\* A move to the right from x = 590 passed through the edge value x = 0 as
\* its second step and ended strictly inside, at x = 5.
C17_Witness ==
    /\ last.op = "move" /\ last.outcome = "ok" /\ last.dir = "right"
    /\ last.prev[1] = WIDTH - 2 * KeyStep
    /\ Len(trail) = KeySteps /\ trail[2][1] = 0
    /\ coords[1] = KeyStep

====
